---- MODULE Spec2Model ----
(***************************************************************************)
(* Model of content/date-parse-performance.ipynb: a notebook that          *)
(* generates timestamped records from a seeded generator, loads them into  *)
(* a string-indexed DataFrame, converts the index to date-times with three *)
(* strategies, sums the values per day and estimates the record count.     *)
(*                                                                         *)
(* Strings are TLA+ strings; a date-time is the number of minutes since    *)
(* 1970-01-01 00:00 of the naive (zone-less) civil time it denotes.        *)
(***************************************************************************)
EXTENDS Integers, Sequences, FiniteSets, TLC

VARIABLES
    clock,      \* time.time() of the run, whole seconds
    utcoffset,  \* offset of the local zone, seconds east of UTC
    stream,     \* raw 32-bit outputs of the seeded generator revealed so far
    num_rows,   \* the count N
    pc,         \* position in the generator cell: "seed", "randn", "loop",
                \* "done" ("idle": the cell is not run)
    pos,        \* number of raw outputs the run has consumed
    data,       \* np.random.randn(num_rows)
    records,    \* the list of {'timestamp', 'value'} dictionaries
    stamps,     \* history: the integer drawn for each record
    heap,       \* the DataFrame object each name is bound to
    daily_sum,  \* df_parse_first.resample('D', how='sum')
    estimate,   \* variance, num_days, est_num_original_records, error_pct
    clock2,     \* a second run of the generator cell: its time.time()
    pc2,        \* ... its position
    pos2,       \* ... its consumed raw outputs
    data2,      \* ... its randn values
    records2,   \* ... its records
    rt_dt,      \* a date-time value to format and parse back
    rt_string,  \* ... its strftime('%m/%d/%y %H:%M')
    rt_parsed   \* ... the string parsed with the explicit format

vars == <<clock, utcoffset, stream, num_rows, pc, pos, data, records, stamps,
          heap, daily_sum, estimate, clock2, pc2, pos2, data2, records2,
          rt_dt, rt_string, rt_parsed>>

rtvars == <<rt_dt, rt_string, rt_parsed>>

----------------------------------------------------------------------------
(* Bounds of the model *)

\* largest count N (the notebook uses int(1e6))
MaxRows == 2

\* raw outputs the generator may yield beyond the 2N a run without
\* rejections consumes
MaxRejects == 1

StreamCap == 2 * MaxRows + MaxRejects

\* TLC integers are 32-bit signed: every Unix time and every raw
\* output of the model is below 2^31 (19 January 2038).

\* Wall-clock readings: 2015-06-01 12:00:00 and 2026-11-03 12:00:00 UTC.
ClockSamples == {1433160000, 1793707200}

\* Local zones: UTC and UTC-5.
UtcOffsets == {0, -18000}

\* Raw generator outputs come from one of these neighbourhoods:
\* 1970-01-01 00:00:00 and 2015-05-30 12:00:30 UTC ...
RawBases == {0, 1432987230}

\* ... at these distances: none, one second less than a day, and two days
\* and a minute.
RawOffsets == {0, 86399, 172860}

RawSamples(base) == {base + o : o \in RawOffsets}

----------------------------------------------------------------------------
(* Calendar arithmetic of datetime (proleptic Gregorian) *)

IsLeap(y) == (y % 4 = 0 /\ y % 100 # 0) \/ y % 400 = 0

DaysInMonth(y, m) ==
    IF m = 2 THEN (IF IsLeap(y) THEN 29 ELSE 28)
    ELSE IF m \in {4, 6, 9, 11} THEN 30 ELSE 31

\* days from 1970-01-01 to the civil date y-m-d
DaysFromCivil(y, m, d) ==
    LET yy  == IF m <= 2 THEN y - 1 ELSE y
        era == yy \div 400
        yoe == yy - era * 400
        mp  == (m + 9) % 12
        doy == (153 * mp + 2) \div 5 + d - 1
        doe == yoe * 365 + yoe \div 4 - yoe \div 100 + doy
    IN  era * 146097 + doe - 719468

\* the civil date of day number z (days since 1970-01-01)
CivilFromDays(z) ==
    LET zz  == z + 719468
        era == zz \div 146097
        doe == zz - era * 146097
        yoe == (doe - doe \div 1460 + doe \div 36524 - doe \div 146096) \div 365
        doy == doe - (365 * yoe + yoe \div 4 - yoe \div 100)
        mp  == (5 * doy + 2) \div 153
        d   == doy - (153 * mp + 2) \div 5 + 1
        m   == IF mp < 10 THEN mp + 3 ELSE mp - 9
        y   == yoe + era * 400 + (IF m <= 2 THEN 1 ELSE 0)
    IN  [year |-> y, month |-> m, day |-> d]

\* datetime.fromtimestamp(timestamp): the local civil time of a Unix time
FromTimestamp(timestamp, offset) ==
    LET local == timestamp + offset
        date  == CivilFromDays(local \div 86400)
        sod   == local % 86400
    IN  [year |-> date.year, month |-> date.month, day |-> date.day,
         hour |-> sod \div 3600, minute |-> (sod % 3600) \div 60,
         second |-> sod % 60]

\* minutes since 1970-01-01 00:00 of a naive civil time
Minutes(y, m, d, H, M) == DaysFromCivil(y, m, d) * 1440 + H * 60 + M

----------------------------------------------------------------------------
(* Formatting and parsing *)

Digits == "0123456789"

DigitChar(k) == SubSeq(Digits, k + 1, k + 1)

\* the value of each digit character
DigitVals == [c \in {DigitChar(k) : k \in 0..9} |->
                CHOOSE k \in 0..9 : DigitChar(k) = c]

IsDigit(c) == c \in DOMAIN DigitVals

DigitVal(c) == DigitVals[c]

\* a number below 100 as two zero-padded digits
TwoDigits(n) == DigitChar(n \div 10) \o DigitChar(n % 10)

\* .strftime('%m/%d/%y %H:%M')
Strftime(dt) ==
    TwoDigits(dt.month) \o "/" \o TwoDigits(dt.day) \o "/"
        \o TwoDigits(dt.year % 100) \o " "
        \o TwoDigits(dt.hour) \o ":" \o TwoDigits(dt.minute)

Char(s, i) == SubSeq(s, i, i)

\* the two-digit field of s that starts at position i
Field(s, i) == DigitVal(Char(s, i)) * 10 + DigitVal(Char(s, i + 1))

\* s has the layout dd/dd/dd dd:dd
MatchesLayout(s) ==
    /\ Len(s) = 14
    /\ \A i \in {1, 2, 4, 5, 7, 8, 10, 11, 13, 14} : IsDigit(Char(s, i))
    /\ Char(s, 3) = "/" /\ Char(s, 6) = "/"
    /\ Char(s, 9) = " " /\ Char(s, 12) = ":"

\* a pivot one year off: 70..99 are 1970..1999, 00..69 are 2000..2069
PivotYearPosixAt70(yy) == IF yy >= 70 THEN 1900 + yy ELSE 2000 + yy

\* %y of strptime: 69..99 are 1969..1999, 00..68 are 2000..2068
PivotYearPosix(yy) == IF yy >= 69 THEN 1900 + yy ELSE 2000 + yy

\* format='%m/%d/%y %H:%M' applied to one string
Strptime(s) ==
    IF ~MatchesLayout(s) THEN [ok |-> FALSE, t |-> 0]
    ELSE LET m == Field(s, 1)
             d == Field(s, 4)
             y == PivotYearPosix(Field(s, 7))
             H == Field(s, 10)
             M == Field(s, 13)
         IN  IF m \in 1..12 /\ d >= 1 /\ d <= DaysInMonth(y, m)
                  /\ H <= 23 /\ M <= 59
             THEN [ok |-> TRUE, t |-> Minutes(y, m, d, H, M)]
             ELSE [ok |-> FALSE, t |-> 0]

\* the format-free parser's two-digit year: the year ending in yy that lies
\* within 50 years of the current year
ConvertYear(yy, thisYear) ==
    LET century == (thisYear \div 100) * 100
        y       == yy + century
    IN  IF y - thisYear >= 50 THEN y - 100
        ELSE IF thisYear - y >= 50 THEN y + 100
        ELSE y

\* the order with the day taken first
ResolveYmdDayFirst(a, b, c) ==
    IF a > 31 THEN [year |-> a, month |-> b, day |-> c]
    ELSE IF b <= 12 THEN [day |-> a, month |-> b, year |-> c]
    ELSE [month |-> a, day |-> b, year |-> c]

\* the order the format-free parser gives three numbers a/b/c
ResolveYmd(a, b, c) ==
    IF a > 31 THEN [year |-> a, month |-> b, day |-> c]
    ELSE IF a > 12 THEN [day |-> a, month |-> b, year |-> c]
    ELSE [month |-> a, day |-> b, year |-> c]

\* parsing one string without a format, in the year thisYear
ParseNoFormat(s, thisYear) ==
    IF ~MatchesLayout(s) THEN [ok |-> FALSE, t |-> 0]
    ELSE LET ymd == ResolveYmd(Field(s, 1), Field(s, 4), Field(s, 7))
             y   == ConvertYear(ymd.year, thisYear)
             H   == Field(s, 10)
             M   == Field(s, 13)
         IN  IF ymd.month \in 1..12 /\ ymd.day >= 1
                  /\ ymd.day <= DaysInMonth(y, ymd.month)
                  /\ H <= 23 /\ M <= 59
             THEN [ok |-> TRUE, t |-> Minutes(y, ymd.month, ymd.day, H, M)]
             ELSE [ok |-> FALSE, t |-> 0]

----------------------------------------------------------------------------
(* The seeded generator *)

\* One value of np.random.randn from one raw output.  The transform of the
\* library is abstracted to a fixed function of the raw output: what matters
\* is that the seed alone determines the values.
Gauss(r) == (r % 7) - 3

\* smallest 2^k - 1 that is >= max, from m = 2^j - 1
MaskFrom(m, max) ==
    LET F[x \in Nat] == IF x >= max THEN x ELSE F[2 * x + 1]
    IN  F[m]

Mask(max) == MaskFrom(0, max)

\* r & mask
Masked(r, mask) == IF r <= mask THEN r ELSE r % (mask + 1)

\* the raw output at position q, masked, is a value in 0..max
Accepted(strm, q, max) == Masked(strm[q], Mask(max)) <= max

\* np.random.randint(low, high) reading the stream after position p: raw
\* outputs are masked and rejected until one is at most high - low - 1.
\* ready is FALSE while the accepted output is not yet revealed.
Randint(strm, p, low, high) ==
    LET max  == high - low - 1
        hits == {q \in (p + 1)..Len(strm) : Accepted(strm, q, max)}
    IN  IF hits = {} THEN [ready |-> FALSE, pos |-> p, value |-> 0]
        ELSE LET q == CHOOSE h \in hits : \A o \in hits : h <= o
             IN  [ready |-> TRUE, pos |-> q,
                  value |-> low + Masked(strm[q], Mask(max))]

\* np.random.randn(n) reading the stream from its start
Randn(strm, n) == [i \in 1..n |-> Gauss(strm[i])]

\* one iteration of the loop: the record it appends and the stream position
LoopBody(strm, p, now, offset, value) ==
    LET draw        == Randint(strm, p, 0, now)
        date_string == Strftime(FromTimestamp(draw.value, offset))
    IN  [ready |-> draw.ready, pos |-> draw.pos, timestamp |-> draw.value,
         record |-> [timestamp |-> date_string, value |-> value]]

----------------------------------------------------------------------------
(* DataFrames *)

Names == {"df", "df_dt_constructor", "df_parse_with_format",
          "df_parse_no_format", "df_parse_first"}

\* an index label: a string or a date-time
StrKey(s) == [kind |-> "str", s |-> s, t |-> 0]
DtKey(t)  == [kind |-> "dt", s |-> "", t |-> t]

NoFrame == [live |-> FALSE, index |-> <<>>, value |-> <<>>]

\* a table that keeps only the first row of every timestamp string
BuildDataFrameUnique(recs) ==
    LET first == {i \in 1..Len(recs) :
                    \A j \in 1..(i - 1) : recs[j].timestamp # recs[i].timestamp}
        F[i \in 0..Len(recs)] ==
            IF i = 0 THEN <<>>
            ELSE IF i \in first THEN Append(F[i - 1], i) ELSE F[i - 1]
        keep  == F[Len(recs)]
    IN  [live  |-> TRUE,
         index |-> [k \in 1..Len(keep) |-> StrKey(recs[keep[k]].timestamp)],
         value |-> [k \in 1..Len(keep) |-> recs[keep[k]].value]]

\* pd.DataFrame(records).set_index('timestamp'): one row per record, in
\* order, labelled by the record's timestamp string
BuildDataFrame(recs) ==
    [live  |-> TRUE,
     index |-> [i \in 1..Len(recs) |-> StrKey(recs[i].timestamp)],
     value |-> [i \in 1..Len(recs) |-> recs[i].value]]

\* no copy: the name dst refers to the object of src
DataFrameCopyAlias(src, dst) == src

\* src.copy() bound to the name dst: the object the name refers to
DataFrameCopy(src, dst) == dst

\* the year the format-free parser takes as the current one
CurrentYear(now, offset) == FromTimestamp(now, offset).year

\* a label that is a date-time already passes through a parser
Passed(k) == [ok |-> TRUE, t |-> k.t]

\* the result of parsing every label: one label that fails fails the call
Parsed(each) ==
    [ok    |-> \A i \in 1..Len(each) : each[i].ok,
     index |-> [i \in 1..Len(each) |-> DtKey(each[i].t)]]

\* pd.to_datetime(index, format='%m/%d/%y %H:%M')
ToDatetimeFormat(index) ==
    Parsed([i \in 1..Len(index) |->
              IF index[i].kind = "dt" THEN Passed(index[i])
              ELSE Strptime(index[i].s)])

\* pd.to_datetime(index)
ToDatetime(index, thisYear) ==
    Parsed([i \in 1..Len(index) |->
              IF index[i].kind = "dt" THEN Passed(index[i])
              ELSE ParseNoFormat(index[i].s, thisYear)])

\* pd.DatetimeIndex(index)
DatetimeIndex(index, thisYear) ==
    Parsed([i \in 1..Len(index) |->
              IF index[i].kind = "dt" THEN Passed(index[i])
              ELSE ParseNoFormat(index[i].s, thisYear)])

\* the heap after  dst = df.copy()
CopyDf(h, dst) == [h EXCEPT ![DataFrameCopy("df", dst)] = h["df"]]

\* the frame the name dst refers to after  dst = df.copy()
Deref(h, dst) == h[DataFrameCopy("df", dst)]

\* the heap after  dst.index = <parsed>.  After a parse that fails the frame
\* keeps its strings: the call raises before the assignment (errors='raise'),
\* or hands the strings back unchanged (errors='ignore', the default of
\* older releases).
AssignIndex(h, dst, parsed) ==
    IF parsed.ok
    THEN [h EXCEPT ![DataFrameCopy("df", dst)].index = parsed.index]
    ELSE h

----------------------------------------------------------------------------
(* Daily sums and the estimate *)

RECURSIVE SumSeq(_)
SumSeq(s) == IF s = <<>> THEN 0 ELSE Head(s) + SumSeq(Tail(s))

RECURSIVE SumOver(_, _)
SumOver(S, f) ==
    IF S = {} THEN 0
    ELSE LET x == CHOOSE y \in S : TRUE IN f[x] + SumOver(S \ {x}, f)

MinOf(S) == CHOOSE x \in S : \A y \in S : x <= y
MaxOf(S) == CHOOSE x \in S : \A y \in S : x >= y

\* half-day buckets
DayOfHalf(k) == k.t \div 720

\* the calendar day (days since 1970-01-01) of a date-time label
DayOf(k) == k.t \div 1440

NoDaily == [set |-> FALSE, rows |-> <<>>]

\* how='last' in place of how='sum'
ResampleLast(frame) ==
    LET n     == Len(frame.index)
        days  == {frame.index[i].t \div 1440 : i \in 1..n}
        lo    == MinOf(days)
        hi    == MaxOf(days)
        on(d) == {i \in 1..n : frame.index[i].t \div 1440 = d}
    IN  [set  |-> TRUE,
         rows |-> IF n = 0 THEN <<>>
                  ELSE [k \in 1..(hi - lo + 1) |->
                          [day   |-> lo + k - 1,
                           nan   |-> on(lo + k - 1) = {},
                           value |-> IF on(lo + k - 1) = {} THEN 0
                                     ELSE frame.value[MaxOf(on(lo + k - 1))]]]]

\* a group-by of the days present: no row for a day without records
ResampleSparse(frame) ==
    LET n     == Len(frame.index)
        days  == {frame.index[i].t \div 1440 : i \in 1..n}
        on(d) == {i \in 1..n : frame.index[i].t \div 1440 = d}
        F[S \in SUBSET days] ==
            IF S = {} THEN <<>>
            ELSE LET d == MinOf(S)
                 IN  <<[day |-> d, nan |-> FALSE,
                        value |-> SumOver(on(d), frame.value)]>>
                        \o F[S \ {d}]
    IN  [set |-> TRUE, rows |-> F[days]]

\* frame.resample('D', how='sum'): one row for every day from the first to
\* the last day of the index; a day without rows has no sum (NaN)
Resample(frame) ==
    LET n     == Len(frame.index)
        days  == {DayOf(frame.index[i]) : i \in 1..n}
        lo    == MinOf(days)
        hi    == MaxOf(days)
        on(d) == {i \in 1..n : DayOf(frame.index[i]) = d}
    IN  [set  |-> TRUE,
         rows |-> IF n = 0 THEN <<>>
                  ELSE [k \in 1..(hi - lo + 1) |->
                          [day   |-> lo + k - 1,
                           nan   |-> on(lo + k - 1) = {},
                           value |-> SumOver(on(lo + k - 1), frame.value)]]]

NoEstimate == [set |-> FALSE, num_days |-> 0, var_num |-> 0, var_den |-> 0,
               est_num |-> 0, err_num |-> 0]

\* variance = daily_sum.var()[0]; num_days = len(daily_sum);
\* est_num_original_records = variance * num_days; error_pct.
\* The variance skips the days without a sum and is the fraction
\* var_num / var_den (no value when var_den = 0); the estimate is
\* est_num / var_den and the error err_num / (var_den * n) percent.
Estimator(daily, n) ==
    LET rows == daily.rows
        have == {k \in 1..Len(rows) : ~rows[k].nan}
        c    == Cardinality(have)
        x    == [k \in 1..Len(rows) |-> rows[k].value]
        sq   == [k \in 1..Len(rows) |-> rows[k].value * rows[k].value]
        vnum == c * SumOver(have, sq) - SumOver(have, x) * SumOver(have, x)
        vden == c * (c - 1)
        days == Len(rows)
    IN  [set |-> TRUE, num_days |-> days, var_num |-> vnum, var_den |-> vden,
         est_num |-> vnum * days,
         err_num |-> 100 * (vnum * days - n * vden)]

----------------------------------------------------------------------------
(* The cells of the notebook *)

NoHeap == [n \in Names |-> NoFrame]

NoDateTime == [year |-> 1970, month |-> 1, day |-> 1, hour |-> 0,
               minute |-> 0, second |-> 0]

NoParse == [set |-> FALSE, ok |-> FALSE, index |-> <<>>]

\* The state before the first cell runs, with num_rows = int(1e6) replaced
\* by a count within the bound.  Only one run of the generator cell is made.
Init ==
    /\ clock \in ClockSamples
    /\ utcoffset \in UtcOffsets
    /\ stream = <<>>
    /\ num_rows \in 1..MaxRows
    /\ pc = "seed" /\ pos = 0 /\ data = <<>> /\ records = <<>>
    /\ stamps = <<>>
    /\ heap = NoHeap /\ daily_sum = NoDaily /\ estimate = NoEstimate
    /\ clock2 = clock /\ pc2 = "idle" /\ pos2 = 0 /\ data2 = <<>>
    /\ records2 = <<>>
    /\ rt_dt = NoDateTime /\ rt_string = "" /\ rt_parsed = NoParse

\* The same, with a second run of the generator cell at another time.
InitTwoRuns ==
    /\ clock \in ClockSamples
    /\ utcoffset \in UtcOffsets
    /\ stream = <<>>
    /\ num_rows \in 1..MaxRows
    /\ pc = "seed" /\ pos = 0 /\ data = <<>> /\ records = <<>>
    /\ stamps = <<>>
    /\ heap = NoHeap /\ daily_sum = NoDaily /\ estimate = NoEstimate
    /\ clock2 \in ClockSamples /\ pc2 = "seed" /\ pos2 = 0 /\ data2 = <<>>
    /\ records2 = <<>>
    /\ rt_dt = NoDateTime /\ rt_string = "" /\ rt_parsed = NoParse

\* a run at position c that has consumed p outputs and built recs needs an
\* output that is not revealed yet
Waiting(c, p, recs, now) ==
    \/ c = "randn" /\ Len(stream) < num_rows
    \/ c = "loop" /\ Len(recs) < num_rows /\ ~Randint(stream, p, 0, now).ready

\* the raw outputs that may follow the revealed ones: those of the
\* neighbourhood of the first
NextRaw ==
    IF stream = <<>> THEN UNION {RawSamples(b) : b \in RawBases}
    ELSE UNION {RawSamples(b) : b \in {c \in RawBases : stream[1] \in RawSamples(c)}}

\* The generator seeded with 42 yields its next raw output.  The sequence is
\* fixed by the seed: every run reads the same stream.
Reveal ==
    /\ Len(stream) < StreamCap
    /\ Waiting(pc, pos, records, clock) \/ Waiting(pc2, pos2, records2, clock2)
    /\ \E r \in NextRaw : stream' = Append(stream, r)
    /\ UNCHANGED <<rtvars, clock, utcoffset, num_rows, pc, pos, data, records, stamps,
                   heap, daily_sum, estimate, clock2, pc2, pos2, data2,
                   records2>>

\* np.random.seed(42)
Seed ==
    /\ pc = "seed"
    /\ pc' = "randn" /\ pos' = 0
    /\ UNCHANGED <<rtvars, clock, utcoffset, stream, num_rows, data, records, stamps,
                   heap, daily_sum, estimate, clock2, pc2, pos2, data2,
                   records2>>

\* data = np.random.randn(num_rows); records = []
RandnCell ==
    /\ pc = "randn" /\ Len(stream) >= num_rows
    /\ data' = Randn(stream, num_rows)
    /\ pos' = num_rows /\ pc' = "loop" /\ records' = <<>> /\ stamps' = <<>>
    /\ UNCHANGED <<rtvars, clock, utcoffset, stream, num_rows, heap, daily_sum,
                   estimate, clock2, pc2, pos2, data2, records2>>

\* one iteration of  for i in xrange(num_rows)
Loop ==
    /\ pc = "loop" /\ Len(records) < num_rows
    /\ LET body == LoopBody(stream, pos, clock, utcoffset,
                            data[Len(records) + 1])
       IN  /\ body.ready
           /\ records' = Append(records, body.record)
           /\ stamps' = Append(stamps, body.timestamp)
           /\ pos' = body.pos
    /\ pc' = IF Len(records') = num_rows THEN "done" ELSE "loop"
    /\ UNCHANGED <<rtvars, clock, utcoffset, stream, num_rows, data, heap, daily_sum,
                   estimate, clock2, pc2, pos2, data2, records2>>

\* the second run: np.random.seed(42)
Seed2 ==
    /\ pc = "done" /\ pc2 = "seed"
    /\ pc2' = "randn" /\ pos2' = 0
    /\ UNCHANGED <<rtvars, clock, utcoffset, stream, num_rows, pc, pos, data, records,
                   stamps, heap, daily_sum, estimate, clock2, data2, records2>>

\* the second run: data = np.random.randn(num_rows); records = []
RandnCell2 ==
    /\ pc2 = "randn" /\ Len(stream) >= num_rows
    /\ data2' = Randn(stream, num_rows)
    /\ pos2' = num_rows /\ pc2' = "loop" /\ records2' = <<>>
    /\ UNCHANGED <<rtvars, clock, utcoffset, stream, num_rows, pc, pos, data, records,
                   stamps, heap, daily_sum, estimate, clock2>>

\* the second run: one iteration of the loop
Loop2 ==
    /\ pc2 = "loop" /\ Len(records2) < num_rows
    /\ LET body == LoopBody(stream, pos2, clock2, utcoffset,
                            data2[Len(records2) + 1])
       IN  /\ body.ready
           /\ records2' = Append(records2, body.record)
           /\ pos2' = body.pos
    /\ pc2' = IF Len(records2') = num_rows THEN "done" ELSE "loop"
    /\ UNCHANGED <<rtvars, clock, utcoffset, stream, num_rows, pc, pos, data, records,
                   stamps, heap, daily_sum, estimate, clock2, data2>>

\* df = pd.DataFrame(records).set_index('timestamp')
BuildDf ==
    /\ pc = "done"
    /\ heap' = [heap EXCEPT !["df"] = BuildDataFrame(records)]
    /\ UNCHANGED <<rtvars, clock, utcoffset, stream, num_rows, pc, pos, data, records,
                   stamps, daily_sum, estimate, clock2, pc2, pos2, data2,
                   records2>>

\* Method 1: df_dt_constructor = df.copy();
\* df_dt_constructor.index = pd.DatetimeIndex(df_dt_constructor.index)
Method1 ==
    /\ heap["df"].live
    /\ LET copied == CopyDf(heap, "df_dt_constructor")
           parsed == DatetimeIndex(Deref(copied, "df_dt_constructor").index,
                                   CurrentYear(clock, utcoffset))
       IN  heap' = AssignIndex(copied, "df_dt_constructor", parsed)
    /\ UNCHANGED <<rtvars, clock, utcoffset, stream, num_rows, pc, pos, data, records,
                   stamps, daily_sum, estimate, clock2, pc2, pos2, data2,
                   records2>>

\* Method 2: df_parse_with_format = df.copy(); df_parse_with_format.index =
\* pd.to_datetime(df_parse_with_format.index, format='%m/%d/%y %H:%M')
Method2 ==
    /\ heap["df"].live
    /\ LET copied == CopyDf(heap, "df_parse_with_format")
           parsed == ToDatetimeFormat(
                         Deref(copied, "df_parse_with_format").index)
       IN  heap' = AssignIndex(copied, "df_parse_with_format", parsed)
    /\ UNCHANGED <<rtvars, clock, utcoffset, stream, num_rows, pc, pos, data, records,
                   stamps, daily_sum, estimate, clock2, pc2, pos2, data2,
                   records2>>

\* Method 3: df_parse_no_format = df.copy();
\* df_parse_no_format.index = pd.to_datetime(df_parse_no_format.index)
Method3 ==
    /\ heap["df"].live
    /\ LET copied == CopyDf(heap, "df_parse_no_format")
           parsed == ToDatetime(Deref(copied, "df_parse_no_format").index,
                                CurrentYear(clock, utcoffset))
       IN  heap' = AssignIndex(copied, "df_parse_no_format", parsed)
    /\ UNCHANGED <<rtvars, clock, utcoffset, stream, num_rows, pc, pos, data, records,
                   stamps, daily_sum, estimate, clock2, pc2, pos2, data2,
                   records2>>

AllDates(frame) == \A i \in 1..Len(frame.index) : frame.index[i].kind = "dt"

\* df_parse_first = df.copy(); df_parse_first.index = pd.to_datetime(...,
\* format='%m/%d/%y %H:%M'); daily_sum = df_parse_first.resample('D',
\* how='sum').  Resampling needs a date-time index: after a failed parse
\* the cell has raised and daily_sum is not assigned.
Aggregate ==
    /\ heap["df"].live
    /\ LET copied == CopyDf(heap, "df_parse_first")
           parsed == ToDatetimeFormat(Deref(copied, "df_parse_first").index)
       IN  heap' = AssignIndex(copied, "df_parse_first", parsed)
    /\ LET df_parse_first == Deref(heap', "df_parse_first")
       IN  daily_sum' = IF AllDates(df_parse_first)
                        THEN Resample(df_parse_first) ELSE daily_sum
    /\ UNCHANGED <<rtvars, clock, utcoffset, stream, num_rows, pc, pos, data, records,
                   stamps, estimate, clock2, pc2, pos2, data2, records2>>

\* variance, num_days, est_num_original_records, error_pct
Estimate ==
    /\ daily_sum.set
    /\ estimate' = Estimator(daily_sum, num_rows)
    /\ UNCHANGED <<rtvars, clock, utcoffset, stream, num_rows, pc, pos, data, records,
                   stamps, heap, daily_sum, clock2, pc2, pos2, data2,
                   records2>>

Next ==
    \/ Reveal \/ Seed \/ RandnCell \/ Loop \/ BuildDf
    \/ Method1 \/ Method2 \/ Method3 \/ Aggregate \/ Estimate

Spec == Init /\ [][Next]_vars

NextTwoRuns ==
    \/ Reveal \/ Seed \/ RandnCell \/ Loop
    \/ Seed2 \/ RandnCell2 \/ Loop2

SpecTwoRuns == InitTwoRuns /\ [][NextTwoRuns]_vars

----------------------------------------------------------------------------
(* Formatting one date-time value and parsing it back *)

\* date-time values around the ends of the two-digit-year window, the
\* turn of the century and a leap day
DateTimes ==
    {[year |-> y, month |-> m, day |-> d, hour |-> H, minute |-> M,
      second |-> S] :
        y \in {1968, 1969, 1970, 1999, 2000, 2016, 2068, 2069},
        m \in {1, 2, 12}, d \in {1, 12, 29}, H \in {0, 23}, M \in {0, 59},
        S \in {0, 59}}

InitRoundTrip ==
    /\ clock = MinOf(ClockSamples)
    /\ utcoffset = 0
    /\ stream = <<>>
    /\ num_rows = 1
    /\ pc = "idle" /\ pos = 0 /\ data = <<>> /\ records = <<>>
    /\ stamps = <<>>
    /\ heap = NoHeap /\ daily_sum = NoDaily /\ estimate = NoEstimate
    /\ clock2 = clock /\ pc2 = "idle" /\ pos2 = 0 /\ data2 = <<>>
    /\ records2 = <<>>
    /\ rt_dt \in {x \in DateTimes : x.day <= DaysInMonth(x.year, x.month)}
    /\ rt_string = "" /\ rt_parsed = NoParse

\* date_string = d.strftime('%m/%d/%y %H:%M')
Format ==
    /\ rt_string = ""
    /\ rt_string' = Strftime(rt_dt)
    /\ UNCHANGED <<clock, utcoffset, stream, num_rows, pc, pos, data, records,
                   stamps, heap, daily_sum, estimate, clock2, pc2, pos2,
                   data2, records2, rt_dt, rt_parsed>>

\* pd.to_datetime([date_string], format='%m/%d/%y %H:%M')
ParseBack ==
    /\ rt_string # "" /\ ~rt_parsed.set
    /\ LET parsed == ToDatetimeFormat(<<StrKey(rt_string)>>)
       IN  rt_parsed' = [set |-> TRUE, ok |-> parsed.ok, index |-> parsed.index]
    /\ UNCHANGED <<clock, utcoffset, stream, num_rows, pc, pos, data, records,
                   stamps, heap, daily_sum, estimate, clock2, pc2, pos2,
                   data2, records2, rt_dt, rt_string>>

NextRoundTrip == Format \/ ParseBack

SpecRoundTrip == InitRoundTrip /\ [][NextRoundTrip]_vars

----------------------------------------------------------------------------
(* Properties *)

\* the sum of all original values
TotalValue == SumSeq([i \in 1..Len(records) |-> records[i].value])

\* the sum of the daily sums, days without a sum skipped
TotalDaily ==
    SumOver({k \in 1..Len(daily_sum.rows) : ~daily_sum.rows[k].nan},
            [k \in 1..Len(daily_sum.rows) |-> daily_sum.rows[k].value])

\* the local calendar day (days since 1970-01-01) of the i-th drawn integer
LocalDay(i) == (stamps[i] + utcoffset) \div 86400

LocalDays == {LocalDay(i) : i \in 1..Len(stamps)}

\* the date part MM/DD/YY of the i-th record's timestamp string
DatePart(i) == SubSeq(records[i].timestamp, 1, 8)

\* C1: once the daily sums are computed, their total equals the total of
\* the values of all records: no value is lost or counted twice.
C1_SumInvariant == daily_sum.set => TotalDaily = TotalValue

\* C1 witness: the daily sums of two records with the same timestamp string
\* and a non-zero total.
C1_Witness ==
    /\ daily_sum.set /\ Len(records) >= 2
    /\ records[1].timestamp = records[2].timestamp
    /\ TotalValue # 0

\* the three timing cells have all assigned their date-time index
AllParsed ==
    /\ heap["df"].live
    /\ \A n \in {"df_dt_constructor", "df_parse_with_format",
                 "df_parse_no_format"} : heap[n].live /\ AllDates(heap[n])

SameCentury(i) ==
    LET yy == Field(heap["df"].index[i].s, 7)
    IN  PivotYearPosix(yy) = ConvertYear(yy, CurrentYear(clock, utcoffset))

Truncated(d) == Minutes(d.year, d.month, d.day, d.hour, d.minute)

\* C3 (as stated): formatting any date-time value and parsing the string
\* with the explicit format gives back the value truncated to the minute.
C3_RoundTrip ==
    rt_parsed.set =>
        rt_parsed.ok /\ rt_parsed.index[1] = DtKey(Truncated(rt_dt))

\* C3 (amended): the round trip gives back the value truncated to the
\* minute for every date-time value of the years 1969 to 2068.
C3_RoundTripInWindow ==
    rt_parsed.set /\ rt_dt.year \in 1969..2068 =>
        rt_parsed.ok /\ rt_parsed.index[1] = DtKey(Truncated(rt_dt))

\* C3 witness: a value of 2068 with seconds, formatted and parsed back.
C3_Witness ==
    /\ rt_parsed.set /\ rt_parsed.ok
    /\ rt_dt.year = 2068 /\ rt_dt.second = 59 /\ rt_dt.month # rt_dt.day

\* C4 (as stated): the daily sums have a row for a day exactly when a record
\* falls on it, and num_days is the number of distinct days present.
C4_NoDensification ==
    /\ daily_sum.set =>
          /\ {daily_sum.rows[k].day : k \in 1..Len(daily_sum.rows)} = LocalDays
          /\ Len(daily_sum.rows) = Cardinality(LocalDays)
    /\ estimate.set => estimate.num_days = Cardinality(LocalDays)

\* C4 (amended): the daily sums have one row for every calendar day from
\* the first to the last day observed, in order; the row of a day without
\* records has no sum; num_days is the number of days of that range.
C4_DenseRange ==
    /\ daily_sum.set =>
          LET lo == MinOf(LocalDays)
              hi == MaxOf(LocalDays)
          IN  /\ Len(daily_sum.rows) = hi - lo + 1
              /\ \A k \in 1..Len(daily_sum.rows) :
                    /\ daily_sum.rows[k].day = lo + k - 1
                    /\ daily_sum.rows[k].nan <=> (lo + k - 1) \notin LocalDays
    /\ estimate.set =>
          estimate.num_days = MaxOf(LocalDays) - MinOf(LocalDays) + 1

\* C4 witness: the estimate computed from daily sums with a day that has no
\* record between two days that have one.
C4_Witness ==
    /\ estimate.set
    /\ \E k \in 1..Len(daily_sum.rows) : daily_sum.rows[k].nan
    /\ estimate.num_days > Cardinality(LocalDays)

\* all timestamps fall on the same calendar day
SameDay == \A i, j \in 1..Len(records) : DatePart(i) = DatePart(j)

\* C5: when all timestamps fall on one calendar day the daily sums have
\* exactly one row, and it holds the sum of all values.
C5_SingleDay ==
    daily_sum.set /\ SameDay =>
        /\ Len(daily_sum.rows) = 1
        /\ ~daily_sum.rows[1].nan
        /\ daily_sum.rows[1].value = TotalValue

\* C5 witness: the daily sums of two records of the same day at different
\* times of day.
C5_Witness ==
    /\ daily_sum.set /\ SameDay /\ Len(records) >= 2
    /\ records[1].timestamp # records[2].timestamp

\* C6: two runs of the generator with the same count and the same seed
\* produce the same records, whatever the time each run executes at.
C6_Determinism == pc = "done" /\ pc2 = "done" => records2 = records

\* C7: the table has one row per record, in order, labelled by the
\* record's timestamp string and holding its value; equal strings stay
\* separate rows.
C7_KeepsEveryRecord ==
    heap["df"].live =>
        /\ Len(heap["df"].index) = Len(records)
        /\ Len(heap["df"].value) = Len(records)
        /\ \A i \in 1..Len(records) :
              /\ heap["df"].index[i] = StrKey(records[i].timestamp)
              /\ heap["df"].value[i] = records[i].value

\* C7 witness: the table built from two records with the same timestamp
\* string and different values.
C7_Witness ==
    /\ heap["df"].live /\ Len(records) >= 2
    /\ records[1].timestamp = records[2].timestamp
    /\ records[1].value # records[2].value

\* C10: once built, the table df is never changed by any cell.
C10_Isolation == [][heap["df"].live => heap'["df"] = heap["df"]]_vars

\* C10 witness: every copy carries a date-time index, the estimate is
\* computed, and df still carries its strings.
C10_Witness ==
    /\ AllParsed /\ estimate.set
    /\ heap["df_parse_first"].live /\ AllDates(heap["df_parse_first"])
    /\ \A i \in 1..Len(heap["df"].index) : heap["df"].index[i].kind = "str"

====
